---- MODULE Spec2Model ----
(***************************************************************************)
(* FlightOps MCP pipeline: the client's plan -> execute -> summarize loop  *)
(* (client.py) and the server's lookup tools over the flight collection    *)
(* (server.py).                                                            *)
(*                                                                         *)
(* Text values (tool arguments, dates, carrier codes) are sequences of     *)
(* one-character strings, so that trimming, lower-casing and parsing are   *)
(* computed character by character as Python computes them.  Optional      *)
(* values are records [some |-> BOOLEAN, v |-> value].                     *)
(***************************************************************************)
EXTENDS Integers, Sequences, FiniteSets, TLC

\* ------------------------------------------------------------------ text

UpperLetters == <<"A","B","C","D","E","F","G","H","I","J","K","L","M",
                  "N","O","P","Q","R","S","T","U","V","W","X","Y","Z">>
LowerLetters == <<"a","b","c","d","e","f","g","h","i","j","k","l","m",
                  "n","o","p","q","r","s","t","u","v","w","x","y","z">>
DigitChars == <<"0","1","2","3","4","5","6","7","8","9">>

IsSpace(c) == c \in {" ", "\t", "\n", "\r"}
IsDigit(c) == \E i \in 1..10 : DigitChars[i] = c
DigitVal(c) == (CHOOSE i \in 1..10 : DigitChars[i] = c) - 1

LowerChar(c) ==
    IF \E i \in 1..26 : UpperLetters[i] = c
    THEN LowerLetters[CHOOSE i \in 1..26 : UpperLetters[i] = c]
    ELSE c

\* str.lower()
Lower(s) == [i \in 1..Len(s) |-> LowerChar(s[i])]

\* str.strip(): drop leading and trailing whitespace.
Strip(s) ==
    LET keep == {i \in 1..Len(s) : ~IsSpace(s[i])}
    IN  IF keep = {} THEN <<>>
        ELSE LET lo == CHOOSE i \in keep : \A j \in keep : i <= j
                 hi == CHOOSE i \in keep : \A j \in keep : j <= i
             IN  SubSeq(s, lo, hi)

AllDigits(s) == Len(s) > 0 /\ \A i \in 1..Len(s) : IsDigit(s[i])

RECURSIVE DigitsValue(_)
DigitsValue(s) ==
    IF Len(s) = 0 THEN 0
    ELSE 10 * DigitsValue(SubSeq(s, 1, Len(s) - 1)) + DigitVal(s[Len(s)])

\* str(n) of a Python int.
RECURSIVE NatToStr(_)
NatToStr(n) ==
    IF n < 10 THEN <<DigitChars[n + 1]>>
    ELSE NatToStr(n \div 10) \o <<DigitChars[(n % 10) + 1]>>

\* Zero-padded decimal of width w (strftime's %Y, %m, %d).
RECURSIVE Pad(_, _)
Pad(s, w) == IF Len(s) >= w THEN s ELSE Pad(<<"0">> \o s, w)

\* str.split(sep) for a one-character separator.
RECURSIVE Split(_, _)
Split(s, sep) ==
    IF \A i \in 1..Len(s) : s[i] # sep THEN <<s>>
    ELSE LET k == CHOOSE i \in 1..Len(s) :
                      s[i] = sep /\ \A j \in 1..(i - 1) : s[j] # sep
         IN  <<SubSeq(s, 1, k - 1)>> \o Split(SubSeq(s, k + 1, Len(s)), sep)

\* The maximal runs of non-whitespace characters, in order.
RECURSIVE Words(_)
Words(s) ==
    IF \A i \in 1..Len(s) : IsSpace(s[i]) THEN <<>>
    ELSE LET lo == CHOOSE i \in 1..Len(s) :
                       ~IsSpace(s[i]) /\ \A j \in 1..(i - 1) : IsSpace(s[j])
             hi == CHOOSE i \in lo..Len(s) :
                       /\ \A j \in lo..i : ~IsSpace(s[j])
                       /\ (i = Len(s) \/ IsSpace(s[i + 1]))
         IN  <<SubSeq(s, lo, hi)>> \o Words(SubSeq(s, hi + 1, Len(s)))

None == [some |-> FALSE, v |-> 0]
Some(x) == [some |-> TRUE, v |-> x]


\* JSON values as the client and the tools see them.
JNull == [t |-> "null", s |-> <<>>, n |-> 0]
JStr(s) == [t |-> "str", s |-> s, n |-> 0]
JInt(n) == [t |-> "int", s |-> <<>>, n |-> n]

\* Python's str(v) for a JSON scalar.
PyStr(v) ==
    CASE v.t = "str" -> v.s
      [] v.t = "int" -> IF v.n < 0 THEN <<"-">> \o NatToStr(-v.n) ELSE NatToStr(v.n)
      [] OTHER -> <<"N","o","n","e">>

\* ------------------------------------------------ server.py: normalizers

\* int(text): surrounding whitespace, an optional sign, decimal digits.
ParseInt(s) ==
    LET t == Strip(s)
        signed == Len(t) > 0 /\ t[1] \in {"+", "-"}
        body == IF signed THEN SubSeq(t, 2, Len(t)) ELSE t
    IN  IF AllDigits(body)
        THEN Some(IF signed /\ t[1] = "-" THEN -DigitsValue(body) ELSE DigitsValue(body))
        ELSE None

normalize_flight_number(flight_number) ==
    IF flight_number.t = "null" \/ flight_number = JStr(<<>>) THEN None
    ELSE IF flight_number.t = "int" THEN Some(flight_number.n)
    ELSE ParseInt(Strip(PyStr(flight_number)))

MonthNames == <<
    <<"J","a","n","u","a","r","y">>,
    <<"F","e","b","r","u","a","r","y">>,
    <<"M","a","r","c","h">>,
    <<"A","p","r","i","l">>,
    <<"M","a","y">>,
    <<"J","u","n","e">>,
    <<"J","u","l","y">>,
    <<"A","u","g","u","s","t">>,
    <<"S","e","p","t","e","m","b","e","r">>,
    <<"O","c","t","o","b","e","r">>,
    <<"N","o","v","e","m","b","e","r">>,
    <<"D","e","c","e","m","b","e","r">>>>

IsLeap(y) == (y % 4 = 0 /\ y % 100 # 0) \/ y % 400 = 0
DaysInMonth(y, m) ==
    IF m = 2 THEN (IF IsLeap(y) THEN 29 ELSE 28)
    ELSE IF m \in {4, 6, 9, 11} THEN 30 ELSE 31

\* strptime directives: each takes one piece of the text and yields its value.
YearTok(p) == IF Len(p) = 4 /\ AllDigits(p) THEN Some(DigitsValue(p)) ELSE None
MonthTok(p) ==
    IF Len(p) \in {1, 2} /\ AllDigits(p) /\ DigitsValue(p) \in 1..12
    THEN Some(DigitsValue(p)) ELSE None
DayTok(p) ==
    IF Len(p) \in {1, 2} /\ AllDigits(p) /\ DigitsValue(p) \in 1..31
    THEN Some(DigitsValue(p))
    ELSE IF Len(p) = 2 /\ p[1] = " " /\ IsDigit(p[2]) /\ DigitVal(p[2]) >= 1
    THEN Some(DigitVal(p[2])) ELSE None
\* %B (full month name) and %b (its first three letters), case-insensitive.
MonthNameTok(p, abbreviated) ==
    LET name(i) == IF abbreviated THEN SubSeq(MonthNames[i], 1, 3) ELSE MonthNames[i]
        hit == {i \in 1..12 : Lower(name(i)) = Lower(p)}
    IN  IF hit = {} THEN None ELSE Some(CHOOSE i \in hit : TRUE)

\* datetime(y, m, d), refused when the day does not exist.
MakeDate(y, m, d) ==
    IF y.some /\ m.some /\ d.some /\ y.v >= 1 /\ d.v <= DaysInMonth(y.v, m.v)
    THEN Some([y |-> y.v, m |-> m.v, d |-> d.v]) ELSE None

\* strptime(date_str, fmt) for the eight formats of validate_date, by position
\* in its list:  1 %Y-%m-%d  2 %d-%m-%Y  3 %Y/%m/%d  4 %d/%m/%Y
\*               5 %B %d, %Y 6 %d %B %Y  7 %b %d, %Y 8 %d %b %Y
Strptime(s, fmt) ==
    IF fmt \in 1..4 THEN
        LET p == Split(s, IF fmt \in {1, 2} THEN "-" ELSE "/")
        IN  IF Len(p) # 3 THEN None
            ELSE IF fmt \in {1, 3}
            THEN MakeDate(YearTok(p[1]), MonthTok(p[2]), DayTok(p[3]))
            ELSE MakeDate(YearTok(p[3]), MonthTok(p[2]), DayTok(p[1]))
    ELSE
        LET w == Words(s)
            abbr == fmt \in {7, 8}
        IN  IF Len(w) # 3 \/ IsSpace(s[Len(s)]) THEN None
            ELSE IF fmt \in {5, 7} THEN
                IF IsSpace(s[1]) \/ w[2][Len(w[2])] # "," THEN None
                ELSE MakeDate(YearTok(w[3]), MonthNameTok(w[1], abbr),
                              DayTok(SubSeq(w[2], 1, Len(w[2]) - 1)))
            ELSE
                \* a leading blank is accepted only as %d's " 5" form
                IF IsSpace(s[1]) /\ ~(s[1] = " " /\ ~IsSpace(s[2]) /\ Len(w[1]) = 1)
                THEN None
                ELSE MakeDate(YearTok(w[3]), MonthNameTok(w[2], abbr), DayTok(w[1]))

\* dt.strftime("%Y-%m-%d")
Strftime(dt) ==
    Pad(NatToStr(dt.y), 4) \o <<"-">> \o Pad(NatToStr(dt.m), 2)
        \o <<"-">> \o Pad(NatToStr(dt.d), 2)

DateFormats == 1..8

\* The first format that parses decides; None when the text is empty or no
\* format parses it.
validate_date(date_str) ==
    IF date_str = <<>> THEN None
    ELSE LET ok == {f \in DateFormats : Strptime(date_str, f).some}
         IN  IF ok = {} THEN None
             ELSE LET first == CHOOSE f \in ok : \A g \in ok : f <= g
                  IN  Some(Strftime(Strptime(date_str, first).v))

\* Field paths of the document schema, one component per element.
KeyCarrier == <<"flightLegState", "carrier">>
KeyFlightNumber == <<"flightLegState", "flightNumber">>
KeyDateOfOrigin == <<"flightLegState", "dateOfOrigin">>

\* carrier is text, flight_number an optional int, date_of_origin optional text.
make_query(carrier, flight_number, date_of_origin) ==
    LET keys == (IF carrier # <<>> THEN {KeyCarrier} ELSE {})
                \cup (IF flight_number.some THEN {KeyFlightNumber} ELSE {})
                \cup (IF date_of_origin.some /\ date_of_origin.v # <<>>
                      THEN {KeyDateOfOrigin} ELSE {})
    IN  [k \in keys |->
            CASE k = KeyCarrier -> JStr(carrier)
              [] k = KeyFlightNumber -> JInt(flight_number.v)
              [] k = KeyDateOfOrigin -> JStr(date_of_origin.v)]


\* ------------------------------------------------ the flight collection

\* A stored document: _id, _class and the flightLegState sub-document.
FlightDoc(id, carrier, number, date) ==
    [_id |-> JInt(id),
     _class |-> JStr(<<"F","l","i","g","h","t">>),
     flightLegState |->
        [carrier |-> JStr(carrier), flightNumber |-> JInt(number),
         dateOfOrigin |-> JStr(date), startStation |-> JStr(<<"D","E","L">>),
         equipment |-> JStr(<<"A","3","2","0">>), delays |-> JInt(0),
         pax |-> JInt(180), crewConnections |-> JInt(2),
         operation |-> JStr(<<"o","p">>)]]

HasPath(doc, path) ==
    /\ path[1] \in DOMAIN doc
    /\ Len(path) = 1 \/ (path[1] = "flightLegState" /\ path[2] \in DOMAIN doc[path[1]])
Resolve(doc, path) == IF Len(path) = 1 THEN doc[path[1]] ELSE doc[path[1]][path[2]]

\* A filter matches when every term equals the stored value (type included).
Matches(doc, query) ==
    \A k \in DOMAIN query : HasPath(doc, k) /\ Resolve(doc, k) = query[k]

\* An inclusive projection keeps _id and the named fields; the empty one keeps all.
Project(doc, projection) ==
    IF projection = {} THEN doc
    ELSE LET top == ({"_id"} \cup {q[1] : q \in projection}) \cap DOMAIN doc
         IN  [k \in top |->
                IF k = "flightLegState"
                THEN LET sub == {q[2] : q \in {r \in projection : r[1] = k /\ Len(r) >= 2}}
                                \cap DOMAIN doc[k]
                     IN  [f \in sub |-> doc[k][f]]
                ELSE doc[k]]

Matching(coll, query) == SelectSeq(coll, LAMBDA d : Matches(d, query))

\* collection.find_one(query, projection): the first match, or None.
find_one(coll, query, projection) ==
    LET hits == Matching(coll, query)
    IN  IF Len(hits) = 0 THEN None ELSE Some(Project(hits[1], projection))

\* ISO dates order as the numbers yyyymmdd.
DateKey(doc) ==
    IF HasPath(doc, KeyDateOfOrigin) /\ Resolve(doc, KeyDateOfOrigin).t = "str"
    THEN DigitsValue(SelectSeq(Resolve(doc, KeyDateOfOrigin).s, IsDigit))
    ELSE 0

RECURSIVE InsertDesc(_, _)
InsertDesc(sorted, d) ==
    IF Len(sorted) = 0 THEN <<d>>
    ELSE IF DateKey(sorted[Len(sorted)]) >= DateKey(d) THEN Append(sorted, d)
    ELSE Append(InsertDesc(SubSeq(sorted, 1, Len(sorted) - 1), d), sorted[Len(sorted)])

\* .sort("flightLegState.dateOfOrigin", -1): newest first, ties in stored order.
RECURSIVE SortDesc(_)
SortDesc(docs) ==
    IF Len(docs) = 0 THEN <<>>
    ELSE InsertDesc(SortDesc(SubSeq(docs, 1, Len(docs) - 1)), docs[Len(docs)])

\* collection.find(query).sort(...).limit(n)
find_sorted_limited(coll, query, n) ==
    LET hits == SortDesc(Matching(coll, query))
    IN  SubSeq(hits, 1, IF Len(hits) < n THEN Len(hits) ELSE n)

\* dict.pop(key) when the key is present.
Pop(doc, key) == [k \in DOMAIN doc \ {key} |-> doc[k]]

\* ------------------------------------------------ server.py: responses

response_ok(data) == [json |-> TRUE, val |-> [ok |-> TRUE, data |-> data]]

response_error(msg, code) ==
    [json |-> TRUE, val |-> [ok |-> FALSE, error |-> [message |-> msg, code |-> code]]]

\* ------------------------------------------------ server.py: the handle

\* The module globals _mongo_client and _col (None or set).
NoMongo == [client |-> FALSE, col |-> FALSE]

\* env: "ok", "bad_uri" (the constructor raises) or "bad_db" (indexing the
\* client by the database name raises, after _mongo_client was assigned).
\* get_mongodb_client without the "is None" test: a client per call.
GetClientEveryCall(m, env) ==
    CASE env = "bad_uri" ->
            [raised |-> TRUE, mongo |-> m, cause |-> "InvalidURI", created |-> FALSE]
      [] env = "bad_db" ->
            [raised |-> TRUE, mongo |-> [client |-> TRUE, col |-> FALSE],
             cause |-> "TypeError", created |-> TRUE]
      [] OTHER ->
            [raised |-> FALSE, mongo |-> [client |-> TRUE, col |-> TRUE],
             cause |-> "", created |-> TRUE]

\* created tells whether this call constructed an AsyncIOMotorClient.
get_mongodb_client(m, env) ==
    IF m.client THEN [raised |-> FALSE, mongo |-> m, cause |-> "", created |-> FALSE]
    ELSE CASE env = "bad_uri" ->
                [raised |-> TRUE, mongo |-> m, cause |-> "InvalidURI", created |-> FALSE]
           [] env = "bad_db" ->
                [raised |-> TRUE, mongo |-> [client |-> TRUE, col |-> FALSE],
                 cause |-> "TypeError", created |-> TRUE]
           [] OTHER ->
                [raised |-> FALSE, mongo |-> [client |-> TRUE, col |-> TRUE],
                 cause |-> "", created |-> TRUE]


\* ------------------------------------------------ server.py: fetching

\* What a tool call leaves behind: the text it returns, the store operations
\* it issued, and the handle globals afterwards.
Outcome(text, fetches, mongo) == [text |-> text, fetches |-> fetches, mongo |-> mongo]

\* _fetch_one_async that returns the document with its _id.
FetchOneKeepsId(query, projection, ctx) ==
    LET h == get_mongodb_client(ctx.mongo, ctx.env)
        op == [op |-> "find_one", query |-> query, projection |-> projection]
        result == find_one(ctx.coll, query, projection)
    IN  IF h.raised \/ ~h.mongo.col \/ ~ctx.up
        THEN Outcome(response_error(<<"DB query failed: ", "Exception">>, 500),
                     IF h.raised \/ ~h.mongo.col THEN <<>> ELSE <<op>>, h.mongo)
        ELSE IF ~result.some
        THEN Outcome(response_error(<<"No matching document found.">>, 404), <<op>>, h.mongo)
        ELSE Outcome(response_ok(Pop(result.v, "_class")), <<op>>, h.mongo)

\* ctx: [mongo, env, up, coll]: the handle globals, the configuration, whether
\* the store answers this call, and the collection's documents.
_fetch_one_async(query, projection, ctx) ==
    LET h == get_mongodb_client(ctx.mongo, ctx.env)
        op == [op |-> "find_one", query |-> query, projection |-> projection]
    IN  IF h.raised
        THEN Outcome(response_error(<<"DB query failed: ", h.cause>>, 500), <<>>, h.mongo)
        ELSE IF ~h.mongo.col
        THEN Outcome(response_error(<<"DB query failed: ", "AttributeError">>, 500),
                     <<>>, h.mongo)
        ELSE IF ~ctx.up
        THEN Outcome(response_error(<<"DB query failed: ", "ServerSelectionTimeoutError">>, 500),
                     <<op>>, h.mongo)
        ELSE LET result == find_one(ctx.coll, query, projection)
             IN  IF ~result.some \/ DOMAIN result.v = {}
                 THEN Outcome(response_error(<<"No matching document found.">>, 404),
                              <<op>>, h.mongo)
                 ELSE Outcome(response_ok(Pop(Pop(result.v, "_id"), "_class")),
                              <<op>>, h.mongo)

\* ------------------------------------------------ server.py: the tools

health_check(ctx) ==
    LET h == get_mongodb_client(ctx.mongo, ctx.env)
        op == [op |-> "find_one", query |-> <<>>, projection |-> {<<"_id">>}]
    IN  IF h.raised \/ ~h.mongo.col
        THEN Outcome(response_error(<<"DB unreachable">>, 503), <<>>, h.mongo)
        ELSE IF ~ctx.up
        THEN Outcome(response_error(<<"DB unreachable">>, 503), <<op>>, h.mongo)
        ELSE Outcome(response_ok([status |-> "ok",
                                  db_connected |-> find_one(ctx.coll, <<>>, {<<"_id">>}).some]),
                     <<op>>, h.mongo)

ProjBasicInfo == {
    <<"flightLegState", "carrier">>,
    <<"flightLegState", "flightNumber">>,
    <<"flightLegState", "suffix">>,
    <<"flightLegState", "dateOfOrigin">>,
    <<"flightLegState", "seqNumber">>,
    <<"flightLegState", "startStation">>,
    <<"flightLegState", "endStation">>,
    <<"flightLegState", "startStationICAO">>,
    <<"flightLegState", "endStationICAO">>,
    <<"flightLegState", "scheduledStartTime">>,
    <<"flightLegState", "scheduledEndTime">>,
    <<"flightLegState", "flightStatus">>,
    <<"flightLegState", "operationalStatus">>,
    <<"flightLegState", "flightType">>,
    <<"flightLegState", "blockTimeSch">>,
    <<"flightLegState", "blockTimeActual">>,
    <<"flightLegState", "flightHoursActual">>}

ProjOperationTimes == {
    <<"flightLegState", "carrier">>,
    <<"flightLegState", "flightNumber">>,
    <<"flightLegState", "dateOfOrigin">>,
    <<"flightLegState", "startStation">>,
    <<"flightLegState", "endStation">>,
    <<"flightLegState", "scheduledStartTime">>,
    <<"flightLegState", "scheduledEndTime">>,
    <<"flightLegState", "operation", "estimatedTimes">>,
    <<"flightLegState", "operation", "actualTimes">>,
    <<"flightLegState", "taxiOutTime">>,
    <<"flightLegState", "taxiInTime">>,
    <<"flightLegState", "blockTimeSch">>,
    <<"flightLegState", "blockTimeActual">>,
    <<"flightLegState", "flightHoursActual">>}

ProjEquipment == {
    <<"flightLegState", "carrier">>,
    <<"flightLegState", "flightNumber">>,
    <<"flightLegState", "dateOfOrigin">>,
    <<"flightLegState", "equipment", "plannedAircraftType">>,
    <<"flightLegState", "equipment", "aircraft">>,
    <<"flightLegState", "equipment", "aircraftConfiguration">>,
    <<"flightLegState", "equipment", "aircraftRegistration">>,
    <<"flightLegState", "equipment", "assignedAircraftTypeIATA">>,
    <<"flightLegState", "equipment", "assignedAircraftTypeICAO">>,
    <<"flightLegState", "equipment", "assignedAircraftTypeIndigo">>,
    <<"flightLegState", "equipment", "assignedAircraftConfiguration">>,
    <<"flightLegState", "equipment", "tailLock">>,
    <<"flightLegState", "equipment", "onwardFlight">>,
    <<"flightLegState", "equipment", "actualOnwardFlight">>}

ProjDelay == {
    <<"flightLegState", "carrier">>,
    <<"flightLegState", "flightNumber">>,
    <<"flightLegState", "dateOfOrigin">>,
    <<"flightLegState", "startStation">>,
    <<"flightLegState", "endStation">>,
    <<"flightLegState", "scheduledStartTime">>,
    <<"flightLegState", "operation", "actualTimes", "offBlock">>,
    <<"flightLegState", "delays">>}

ProjFuel == {
    <<"flightLegState", "carrier">>,
    <<"flightLegState", "flightNumber">>,
    <<"flightLegState", "dateOfOrigin">>,
    <<"flightLegState", "startStation">>,
    <<"flightLegState", "endStation">>,
    <<"flightLegState", "operation", "fuel">>,
    <<"flightLegState", "operation", "flightPlan", "offBlockFuel">>,
    <<"flightLegState", "operation", "flightPlan", "takeoffFuel">>,
    <<"flightLegState", "operation", "flightPlan", "landingFuel">>,
    <<"flightLegState", "operation", "flightPlan", "holdFuel">>}

ProjPassenger == {
    <<"flightLegState", "carrier">>,
    <<"flightLegState", "flightNumber">>,
    <<"flightLegState", "dateOfOrigin">>,
    <<"flightLegState", "pax">>}

ProjCrew == {
    <<"flightLegState", "carrier">>,
    <<"flightLegState", "flightNumber">>,
    <<"flightLegState", "dateOfOrigin">>,
    <<"flightLegState", "crewConnections">>}

get_flight_basic_info(carrier, flight_number, date_of_origin, ctx) ==
    LET fn == IF flight_number # <<>> THEN normalize_flight_number(JStr(flight_number))
              ELSE None
        dob == IF date_of_origin # <<>> THEN validate_date(date_of_origin) ELSE None
    IN  IF date_of_origin # <<>> /\ ~dob.some
        THEN Outcome(response_error(<<"Invalid date_of_origin format. Expected YYYY-MM-DD or common date formats">>, 400),
                     <<>>, ctx.mongo)
        ELSE _fetch_one_async(make_query(carrier, fn, dob), ProjBasicInfo, ctx)

get_operation_times(carrier, flight_number, date_of_origin, ctx) ==
    LET fn == IF flight_number # <<>> THEN normalize_flight_number(JStr(flight_number))
              ELSE None
        dob == IF date_of_origin # <<>> THEN validate_date(date_of_origin) ELSE None
    IN  IF date_of_origin # <<>> /\ ~dob.some
        THEN Outcome(response_error(<<"Invalid date format.">>, 400), <<>>, ctx.mongo)
        ELSE _fetch_one_async(make_query(carrier, fn, dob), ProjOperationTimes, ctx)

get_equipment_info(carrier, flight_number, date_of_origin, ctx) ==
    LET fn == IF flight_number # <<>> THEN normalize_flight_number(JStr(flight_number))
              ELSE None
        dob == IF date_of_origin # <<>> THEN validate_date(date_of_origin) ELSE None
    IN  _fetch_one_async(make_query(carrier, fn, dob), ProjEquipment, ctx)

get_delay_summary(carrier, flight_number, date_of_origin, ctx) ==
    LET fn == IF flight_number # <<>> THEN normalize_flight_number(JStr(flight_number))
              ELSE None
        dob == IF date_of_origin # <<>> THEN validate_date(date_of_origin) ELSE None
    IN  _fetch_one_async(make_query(carrier, fn, dob), ProjDelay, ctx)

get_fuel_summary(carrier, flight_number, date_of_origin, ctx) ==
    LET fn == IF flight_number # <<>> THEN normalize_flight_number(JStr(flight_number))
              ELSE None
        dob == IF date_of_origin # <<>> THEN validate_date(date_of_origin) ELSE None
    IN  _fetch_one_async(make_query(carrier, fn, dob), ProjFuel, ctx)

get_passenger_info(carrier, flight_number, date_of_origin, ctx) ==
    LET fn == IF flight_number # <<>> THEN normalize_flight_number(JStr(flight_number))
              ELSE None
        dob == IF date_of_origin # <<>> THEN validate_date(date_of_origin) ELSE None
    IN  _fetch_one_async(make_query(carrier, fn, dob), ProjPassenger, ctx)

get_crew_info(carrier, flight_number, date_of_origin, ctx) ==
    LET fn == IF flight_number # <<>> THEN normalize_flight_number(JStr(flight_number))
              ELSE None
        dob == IF date_of_origin # <<>> THEN validate_date(date_of_origin) ELSE None
    IN  _fetch_one_async(make_query(carrier, fn, dob), ProjCrew, ctx)

RawLimitMin == 1
RawLimitMax == 50

\* ClampLimit without the lower bound: min(int(limit), 50).
ClampLimitNoFloor(limit) == IF limit < RawLimitMax THEN limit ELSE RawLimitMax

\* min(max(1, int(limit)), 50)
ClampLimit(limit) ==
    LET lo == IF limit > RawLimitMin THEN limit ELSE RawLimitMin
    IN  IF lo < RawLimitMax THEN lo ELSE RawLimitMax

\* query_json: [json |-> FALSE] for text that is not JSON, [json |-> TRUE,
\* val |-> v] for text that parses to v: JObj(filter), the filter a function
\* from paths to values, or a JSON value that is no object.
raw_mongodb_query(query_json, limit, ctx) ==
    LET h == get_mongodb_client(ctx.mongo, ctx.env)
    IN  IF h.raised
        THEN Outcome(response_error(<<"raw query failed: ", h.cause>>, 500), <<>>, h.mongo)
        ELSE IF ~query_json.json
        THEN Outcome(response_error(<<"Invalid JSON query: ", "JSONDecodeError",
                                      ". Example: '{\"flightLegState.carrier\": \"6E\"}'">>, 400),
                     <<>>, h.mongo)
        ELSE LET effective == ClampLimit(limit)
                 query == query_json.val
                 op == [op |-> "find", query |-> query.m, limit |-> effective]
             IN  IF ~h.mongo.col
                 THEN Outcome(response_error(<<"raw query failed: ", "AttributeError">>, 500),
                              <<>>, h.mongo)
                 ELSE IF query.t # "obj"
                 THEN Outcome(response_error(<<"raw query failed: ", "TypeError">>, 500),
                              <<>>, h.mongo)
                 ELSE IF ~ctx.up
                 THEN Outcome(response_error(<<"raw query failed: ",
                                               "ServerSelectionTimeoutError">>, 500),
                              <<op>>, h.mongo)
                 ELSE LET found == find_sorted_limited(ctx.coll, query.m, effective)
                          docs == [i \in 1..Len(found) |->
                                     Pop(Pop(found[i], "_id"), "_class")]
                      IN  IF Len(docs) = 0
                          THEN Outcome(response_error(<<"No documents found for given query.">>, 404),
                                       <<op>>, h.mongo)
                          ELSE Outcome(response_ok([count |-> Len(docs), documents |-> docs]),
                                       <<op>>, h.mongo)


\* ------------------------------------------------ the MCP tool boundary

\* The tools server.py registers with @mcp.tool().
ServerTools == {"health_check", "get_flight_basic_info", "get_operation_times",
                "get_equipment_info", "get_delay_summary", "get_fuel_summary",
                "get_passenger_info", "get_crew_info", "raw_mongodb_query"}

\* tool_registry.py: the names the planning prompt lists.
TOOLS == {"get_flight_basic_info", "get_equipment_info", "get_operation_times",
          "get_fuel_summary", "get_delay_summary", "health_check",
          "raw_mongodb_query"}

\* tool_registry.py: the "args" list of a TOOLS entry.
ToolArgs(name) ==
    CASE name = "health_check" -> <<>>
      [] name = "raw_mongodb_query" -> <<"query_json", "limit">>
      [] OTHER -> <<"carrier", "flight_number", "date_of_origin">>

\* The lines "- name(args): desc" of the planning prompt, one per TOOLS entry.
_build_tool_prompt == {[name |-> name, args |-> ToolArgs(name)] : name \in TOOLS}

\* A text keyword argument, or its declared default "".
Arg(args, key) == IF key \in DOMAIN args THEN PyStr(args[key]) ELSE <<>>

DefaultLimit == 10

\* session.call_tool(tool, args) as the server answers it: a registered tool
\* runs with the arguments given (defaults for the missing ones); any other
\* name, or a missing required argument, is answered with an error text that
\* is not JSON.
CallTool(tool, args, ctx) ==
    LET c == Arg(args, "carrier")
        f == Arg(args, "flight_number")
        d == Arg(args, "date_of_origin")
    IN  CASE tool = "health_check" -> health_check(ctx)
          [] tool = "get_flight_basic_info" -> get_flight_basic_info(c, f, d, ctx)
          [] tool = "get_operation_times" -> get_operation_times(c, f, d, ctx)
          [] tool = "get_equipment_info" -> get_equipment_info(c, f, d, ctx)
          [] tool = "get_delay_summary" -> get_delay_summary(c, f, d, ctx)
          [] tool = "get_fuel_summary" -> get_fuel_summary(c, f, d, ctx)
          [] tool = "get_passenger_info" -> get_passenger_info(c, f, d, ctx)
          [] tool = "get_crew_info" -> get_crew_info(c, f, d, ctx)
          [] tool = "raw_mongodb_query" /\ "query_json" \in DOMAIN args ->
                raw_mongodb_query(args["query_json"],
                                  IF "limit" \in DOMAIN args THEN args["limit"].n
                                  ELSE DefaultLimit, ctx)
          [] OTHER ->
                Outcome([json |-> FALSE, text |-> <<"Error executing tool ", tool>>],
                        <<>>, ctx.mongo)

\* ------------------------------------------------ client.py: the LLM wrappers

\* What the chat-completion call does: it raises, or it returns a message
\* whose content is None or a text.  A text either is JSON for a value
\* (json, val) or is not.
LLMRaise == [kind |-> "raise"]
LLMNone == [kind |-> "content", content |-> [kind |-> "none"]]
LLMText(json, val) ==
    [kind |-> "content", content |-> [kind |-> "text", json |-> json, val |-> val]]

JObj(m) == [t |-> "obj", m |-> m]
JList(items) == [t |-> "list", items |-> items]

\* The text of json.dumps({"error": str(e)}).
ErrorJson == [kind |-> "text", json |-> TRUE, val |-> JObj([error |-> "Groq API error"])]

_call_groq(llm) == IF llm.kind = "raise" THEN ErrorJson ELSE llm.content

EmptyPlanData == JObj([plan |-> JList(<<>>)])

\* json.loads raises TypeError on None, JSONDecodeError on text that is not
\* JSON; only the second is caught.
plan_tools(llm) ==
    LET content == _call_groq(llm)
    IN  IF content.kind = "none"
        THEN [raised |-> TRUE, exc |-> "TypeError", plan_data |-> EmptyPlanData]
        ELSE IF ~content.json
        THEN [raised |-> FALSE, exc |-> "", plan_data |-> EmptyPlanData]
        ELSE IF content.val.t = "obj" /\ "plan" \in DOMAIN content.val.m
        THEN [raised |-> FALSE, exc |-> "", plan_data |-> content.val]
        ELSE [raised |-> FALSE, exc |-> "", plan_data |-> EmptyPlanData]

\* {"summary": summary}: the content of the completion as it came, or the
\* error text _call_groq made of a failure.
summarize_results(user_query, plan, results, llm) == [summary |-> _call_groq(llm)]

\* Python truthiness of a JSON value.
Truthy(v) ==
    CASE v.t = "null" -> FALSE
      [] v.t = "int" -> v.n # 0
      [] v.t = "str" -> v.s # <<>>
      [] v.t = "list" -> Len(v.items) > 0
      [] v.t = "obj" -> DOMAIN v.m # {}
      [] OTHER -> TRUE

\* ------------------------------------------------ client.py: the executor

\* The comprehension of run_query that drops None, blank and "unknown" values.
CleanArgs(args) ==
    LET keep == {k \in DOMAIN args :
                    /\ args[k].t # "null"
                    /\ Strip(PyStr(args[k])) # <<>>
                    /\ Lower(PyStr(args[k])) # <<"u","n","k","n","o","w","n">>}
    IN  [k \in keep |-> args[k]]

\* invoke_tool after the call: reply is [raised |-> TRUE] when connect or
\* call_tool raised, else [raised |-> FALSE, content |-> texts].
invoke_tool(reply) ==
    IF reply.raised THEN [error |-> "transport error"]
    ELSE IF Len(reply.content) = 0 THEN [error |-> "No content in response"]
    ELSE LET items == [i \in 1..Len(reply.content) |->
                          IF reply.content[i].json THEN reply.content[i].val
                          ELSE [text |-> reply.content[i].text]]
         IN  IF Len(items) = 1 THEN items[1] ELSE [results |-> items]


\* ------------------------------------------------------------------ state

VARIABLES
    collection,   \* the documents of the flight collection, in stored order
    mongo_env,    \* the store configuration of the server process
    mongo,        \* server.py globals _mongo_client and _col
    srv,          \* the tool call the server is answering, if any
    pc,           \* run_query: Idle, Executing, Summarizing, Done, Raised
    user_query,   \* the question of the run
    plan_reply,   \* what the planning completion did
    plan,         \* plan_data.get("plan", [])
    idx,          \* position of the for loop in plan
    results,      \* the results list
    calls,        \* the calls run_query has made to invoke_tool / summarize_results
    ret,          \* what run_query returned, or the exception it raised
    handles,      \* how many AsyncIOMotorClient objects the coroutines of tasks built
    tasks,        \* the tool coroutines in flight on the server's event loop
    session,      \* client.py self.session: 0 for None, else the object's number
    client_context, \* client.py self._client_context: 0 for None, else the number
    objects,      \* the transport contexts and ClientSessions constructed so far
    api_log       \* the calls made on the FlightOpsMCPClient, in order

vars == <<collection, mongo_env, mongo, srv, pc, user_query, plan_reply, plan, idx,
          results, calls, ret, handles, tasks, session, client_context, objects,
          api_log>>
serverVars == <<collection, mongo_env, mongo, srv>>
clientVars == <<pc, user_query, plan_reply, plan, idx, results, calls, ret>>
poolVars == <<handles, tasks>>
connVars == <<session, client_context, objects, api_log>>

\* ------------------------------------------------------------------ bounds

MaxPlanLen == 3
\* How many tool coroutines the event loop holds at once.
MaxTasks == 3
\* How many calls are made on one FlightOpsMCPClient.
MaxCalls == 3
BulkDocs == 52

\* ------------------------------------------------------------------ inputs

T_empty == <<>>
T_6E == <<"6","E">>
T_AI == <<"A","I">>
T_215 == <<"2","1","5">>
T_215sp == <<" ","2","1","5"," ">>
T_101 == <<"1","0","1">>
T_abc == <<"a","b","c">>
T_iso == <<"2","0","2","4","-","0","6","-","2","3">>
T_dmy == <<"2","3","/","0","6","/","2","0","2","4">>
T_long == <<"J","u","n","e"," ","2","3",","," ","2","0","2","4">>
T_short == <<"2","4"," ","J","u","n"," ","2","0","2","4">>
T_garbage == <<"g","a","r","b","a","g","e">>
T_blank == <<" "," ">>
T_unknown == <<"u","n","k","n","o","w","n">>
T_Unknown == <<"U","n","k","n","o","w","n">>
T_UNKNOWN == <<"U","N","K","N","O","W","N">>
T_unknownSp == <<" ","u","n","k","n","o","w","n"," ">>

Fleet == <<FlightDoc(1, T_6E, 215, T_iso),
           FlightDoc(2, T_6E, 215, <<"2","0","2","4","-","0","6","-","2","4">>),
           FlightDoc(3, T_AI, 101, T_iso)>>

\* BulkDocs flights of one carrier over the days of a month.
Bulk == [i \in 1..BulkDocs |->
            FlightDoc(i, T_6E, 200 + (i % 3),
                      <<"2","0","2","4","-","0","6","-">> \o Pad(NatToStr(1 + (i % 28)), 2))]

Collections == {<<>>, Fleet, Bulk}
MongoEnvs == {"ok", "bad_uri", "bad_db"}

Carriers == {T_empty, T_6E, T_AI, T_unknownSp}
FlightNumbers == {T_empty, T_215, T_215sp, T_101, T_abc}
Dates == {T_empty, T_iso, T_dmy, T_long, T_short, T_garbage, T_unknownSp}

QueryTexts ==
    {[json |-> FALSE],
     [json |-> TRUE, val |-> JInt(5)],
     [json |-> TRUE, val |-> JObj(<<>>)],
     [json |-> TRUE, val |-> JObj(make_query(T_6E, None, None))],
     [json |-> TRUE, val |-> JObj(make_query(T_AI, Some(101), Some(T_iso)))]}
Limits == {-3, 0, 1, 2, 10, 49, 50, 51, 1000}

Questions == {"Why was flight 6E215 delayed?"}

Step(tool, arguments) == JObj([tool |-> tool, arguments |-> arguments])
Args3(c, f, d) == JObj([carrier |-> c, flight_number |-> f, date_of_origin |-> d])

\* The steps a plan is drawn from: well-formed look-ups, arguments that should
\* be dropped, blank and unregistered tool names, and malformed steps.
Steps ==
    {Step("get_flight_basic_info", Args3(JStr(T_unknown), JStr(T_215), JStr(T_iso))),
     Step("get_flight_basic_info", Args3(JStr(T_Unknown), JStr(T_UNKNOWN), JStr(T_garbage))),
     Step("get_equipment_info", Args3(JStr(T_unknownSp), JNull, JStr(T_blank))),
     Step("", JObj([carrier |-> JStr(T_6E)])),
     JObj([arguments |-> JObj(<<>>)]),
     JObj([tool |-> "get_weather"]),
     JStr(T_abc),
     Step("get_flight_basic_info", JNull),
     Step("get_crew_info", JList(<<>>))}

Plans == UNION {[1..n -> Steps] : n \in 0..MaxPlanLen}

\* What the planning completion can be.
PlanReplies ==
    {LLMRaise, LLMNone, LLMText(FALSE, JNull), LLMText(TRUE, JInt(5)),
     LLMText(TRUE, JObj([steps |-> JList(<<>>)])),
     LLMText(TRUE, JObj([plan |-> JNull])),
     LLMText(TRUE, JObj([plan |-> JInt(0)])),
     LLMText(TRUE, JObj([plan |-> JInt(7)]))}
    \cup {LLMText(TRUE, JObj([plan |-> JList(p)])) : p \in Plans}

\* What the summarizing completion can be.
SummaryReplies == {LLMRaise, LLMNone, LLMText(FALSE, JNull)}


\* ------------------------------------------------------------------ Init

Idle == [phase |-> "idle"]
NoReturn == [kind |-> "none"]
NoTask == [st |-> "idle"]

ClientInit ==
    /\ pc = "Idle"
    /\ user_query = ""
    /\ plan_reply = [kind |-> "unset"]
    /\ plan = JList(<<>>)
    /\ idx = 0
    /\ results = <<>>
    /\ calls = <<>>
    /\ ret = NoReturn

\* A server process that has started no tool coroutine.
PoolInit ==
    /\ handles = 0
    /\ tasks = [t \in 1..MaxTasks |-> NoTask]

\* client.py 59-62: a FlightOpsMCPClient as __init__ leaves it.
ConnInit ==
    /\ session = 0
    /\ client_context = 0
    /\ objects = <<>>
    /\ api_log = <<>>

\* A client session against a server with a working store and the Fleet data.
Init ==
    /\ collection = Fleet
    /\ mongo_env = "ok"
    /\ mongo = NoMongo
    /\ srv = Idle
    /\ ClientInit
    /\ PoolInit
    /\ ConnInit

\* A server process, no client run: any data behind a working configuration,
\* or a configuration under which the store is never reached.
InitServer ==
    /\ \/ collection \in Collections /\ mongo_env = "ok"
       \/ collection = Fleet /\ mongo_env \in MongoEnvs
    /\ mongo = NoMongo
    /\ srv = Idle
    /\ ClientInit
    /\ PoolInit
    /\ ConnInit

Ctx(up) == [mongo |-> mongo, env |-> mongo_env, up |-> up, coll |-> collection]

\* ------------------------------------------------------------------ run_query

\* step.get("tool"): the value, or None when the key is absent.
StepTool(step) == IF "tool" \in DOMAIN step.m THEN Some(step.m["tool"]) ELSE None
\* step.get("arguments", {})
StepArguments(step) ==
    IF "arguments" \in DOMAIN step.m THEN step.m["arguments"] ELSE JObj(<<>>)
\* BlankTool that only notices a missing key: "" counts as a name.
BlankToolOnlyNone(tool) == ~tool.some

\* `not tool`
BlankTool(tool) == ~tool.some \/ tool.v = ""

Raise(exc, at) ==
    /\ pc' = "Raised"
    /\ ret' = [kind |-> "raised", exc |-> exc, at |-> at]

\* AfterPlan without the `if not plan` exit: an empty list falls through the
\* loop to the summary.
AfterPlanNoExit(p) ==
    /\ plan' = p
    /\ IF p.t # "list"
       THEN Raise("TypeError", "for step in plan") /\ UNCHANGED idx
       ELSE /\ idx' = 1
            /\ pc' = IF Len(p.items) = 0 THEN "Summarizing" ELSE "Executing"
            /\ UNCHANGED ret

\* client.py 208-214: the empty-plan exit, else entering the loop.
AfterPlan(p) ==
    /\ plan' = p
    /\ IF ~Truthy(p)
       THEN /\ pc' = "Done"
            /\ ret' = [kind |-> "error",
                       error |-> "LLM did not produce a valid tool plan."]
            /\ UNCHANGED idx
       ELSE IF p.t # "list"
       THEN Raise("TypeError", "for step in plan") /\ UNCHANGED idx
       ELSE pc' = "Executing" /\ idx' = 1 /\ UNCHANGED ret

\* client.py 206-214: plan, then AfterPlan.
RunQuery ==
    /\ pc = "Idle"
    /\ \E q \in Questions, llm \in PlanReplies :
        LET planned == plan_tools(llm)
        IN  /\ user_query' = q
            /\ plan_reply' = llm
            /\ IF planned.raised
               THEN Raise(planned.exc, "plan_tools") /\ UNCHANGED <<plan, idx>>
               ELSE AfterPlan(IF "plan" \in DOMAIN planned.plan_data.m
                              THEN planned.plan_data.m["plan"] ELSE JList(<<>>))
    /\ UNCHANGED <<results, calls, serverVars, poolVars, connVars>>

\* Advance that leaves the loop one step early.
AdvanceStopsEarly ==
    /\ idx' = idx + 1
    /\ pc' = IF idx + 1 >= Len(plan.items) THEN "Summarizing" ELSE "Executing"

\* The loop moves to the next step, or ends and leaves run_query to summarize.
Advance ==
    /\ idx' = idx + 1
    /\ pc' = IF idx + 1 > Len(plan.items) THEN "Summarizing" ELSE "Executing"

\* AfterInvoke that gives up on the plan at the first failed call.
AfterInvokeStopOnError(tool, resp) ==
    /\ results' = Append(results, [tool |-> tool, resp |-> resp])
    /\ IF "ok" \in DOMAIN resp /\ resp.ok
       THEN Advance
       ELSE idx' = Len(plan.items) + 1 /\ pc' = "Summarizing"

\* client.py 228-229: the response is appended whatever it is, and the loop goes on.
AfterInvoke(tool, resp) ==
    /\ results' = Append(results, [tool |-> tool, resp |-> resp])
    /\ Advance

\* client.py 214-229: one iteration of the loop over the plan.
ExecStep ==
    /\ pc = "Executing"
    /\ LET step == plan.items[idx]
       IN  IF step.t # "obj"
           THEN /\ Raise("AttributeError", "step.get")
                /\ UNCHANGED <<idx, results, calls, mongo>>
           ELSE LET tool == StepTool(step)
                    arguments == StepArguments(step)
                IN  IF arguments.t # "obj"
                    THEN /\ Raise("AttributeError", "args.items")
                         /\ UNCHANGED <<idx, results, calls, mongo>>
                    ELSE IF BlankTool(tool)
                    THEN Advance /\ UNCHANGED <<ret, results, calls, mongo>>
                    ELSE \E delivered \in BOOLEAN, up \in BOOLEAN :
                         \E args \in {CleanArgs(arguments.m)} :
                         \E o \in {CallTool(tool.v, args, Ctx(up))} :
                           LET reply == IF delivered
                                        THEN [raised |-> FALSE, content |-> <<o.text>>]
                                        ELSE [raised |-> TRUE]
                           IN  /\ calls' = Append(calls,
                                    [fn |-> "invoke_tool", step |-> idx, tool |-> tool.v,
                                     args |-> args,
                                     fetches |-> IF delivered THEN o.fetches ELSE <<>>])
                               /\ mongo' = IF delivered THEN o.mongo ELSE mongo
                               /\ AfterInvoke(tool.v, invoke_tool(reply))
                               /\ UNCHANGED ret
    /\ UNCHANGED <<user_query, plan_reply, plan, collection, mongo_env, srv>>
    /\ UNCHANGED <<poolVars, connVars>>

\* client.py 231-233: summarize and return the RunResult.
Summarize ==
    /\ pc = "Summarizing"
    /\ \E llm \in SummaryReplies :
        /\ calls' = Append(calls,
                [fn |-> "summarize_results", user_query |-> user_query,
                 plan |-> plan, results |-> results])
        /\ ret' = [kind |-> "result", plan |-> plan, results |-> results,
                   summary |-> summarize_results(user_query, plan, results, llm)]
    /\ pc' = "Done"
    /\ UNCHANGED <<user_query, plan_reply, plan, idx, results, serverVars>>
    /\ UNCHANGED <<poolVars, connVars>>

Next == RunQuery \/ ExecStep \/ Summarize

Spec == Init /\ [][Next]_vars


\* ------------------------------------------------------------------ server

\* The server has answered one call: what it was asked, whether the store
\* answered, the handle globals before, what it issued and what it returned.
Answered(tool, args, up, o) ==
    /\ srv' = [phase |-> "replied", tool |-> tool, args |-> args, up |-> up,
               before |-> mongo, fetches |-> o.fetches, text |-> o.text]
    /\ mongo' = o.mongo
    /\ UNCHANGED <<collection, mongo_env, clientVars, poolVars, connVars>>

ServeHealthCheck ==
    /\ srv.phase = "idle"
    /\ \E up \in BOOLEAN :
         \E o \in {health_check(Ctx(up))} : Answered("health_check", <<>>, up, o)

ServeBasicInfo ==
    /\ srv.phase = "idle"
    /\ \E c \in Carriers, f \in FlightNumbers, d \in Dates, up \in BOOLEAN :
         \E o \in {get_flight_basic_info(c, f, d, Ctx(up))} :
            Answered("get_flight_basic_info",
                     [carrier |-> c, flight_number |-> f, date_of_origin |-> d], up, o)

ServeOperationTimes ==
    /\ srv.phase = "idle"
    /\ \E c \in Carriers, f \in FlightNumbers, d \in Dates, up \in BOOLEAN :
         \E o \in {get_operation_times(c, f, d, Ctx(up))} :
            Answered("get_operation_times",
                     [carrier |-> c, flight_number |-> f, date_of_origin |-> d], up, o)

ServeEquipmentInfo ==
    /\ srv.phase = "idle"
    /\ \E c \in Carriers, f \in FlightNumbers, d \in Dates, up \in BOOLEAN :
         \E o \in {get_equipment_info(c, f, d, Ctx(up))} :
            Answered("get_equipment_info",
                     [carrier |-> c, flight_number |-> f, date_of_origin |-> d], up, o)

ServeDelaySummary ==
    /\ srv.phase = "idle"
    /\ \E c \in Carriers, f \in FlightNumbers, d \in Dates, up \in BOOLEAN :
         \E o \in {get_delay_summary(c, f, d, Ctx(up))} :
            Answered("get_delay_summary",
                     [carrier |-> c, flight_number |-> f, date_of_origin |-> d], up, o)

ServeFuelSummary ==
    /\ srv.phase = "idle"
    /\ \E c \in Carriers, f \in FlightNumbers, d \in Dates, up \in BOOLEAN :
         \E o \in {get_fuel_summary(c, f, d, Ctx(up))} :
            Answered("get_fuel_summary",
                     [carrier |-> c, flight_number |-> f, date_of_origin |-> d], up, o)

ServePassengerInfo ==
    /\ srv.phase = "idle"
    /\ \E c \in Carriers, f \in FlightNumbers, d \in Dates, up \in BOOLEAN :
         \E o \in {get_passenger_info(c, f, d, Ctx(up))} :
            Answered("get_passenger_info",
                     [carrier |-> c, flight_number |-> f, date_of_origin |-> d], up, o)

ServeCrewInfo ==
    /\ srv.phase = "idle"
    /\ \E c \in Carriers, f \in FlightNumbers, d \in Dates, up \in BOOLEAN :
         \E o \in {get_crew_info(c, f, d, Ctx(up))} :
            Answered("get_crew_info",
                     [carrier |-> c, flight_number |-> f, date_of_origin |-> d], up, o)

ServeRawQuery ==
    /\ srv.phase = "idle"
    /\ \E q \in QueryTexts, limit \in Limits, up \in BOOLEAN :
         \E o \in {raw_mongodb_query(q, limit, Ctx(up))} :
            Answered("raw_mongodb_query", [query_json |-> q, limit |-> limit], up, o)

\* The answer has gone back to the caller; the server waits for the next call.
Reply ==
    /\ srv.phase = "replied"
    /\ srv' = Idle
    /\ UNCHANGED <<collection, mongo_env, mongo, clientVars, poolVars, connVars>>

NextServer ==
    \/ ServeHealthCheck
    \/ ServeBasicInfo
    \/ ServeOperationTimes
    \/ ServeEquipmentInfo
    \/ ServeDelaySummary
    \/ ServeFuelSummary
    \/ ServePassengerInfo
    \/ ServeCrewInfo
    \/ ServeRawQuery
    \/ Reply

SpecServer == InitServer /\ [][NextServer]_vars


\* ------------------------------------------------------------------ the event loop

\* Tool coroutines share the server's event loop. A coroutine runs until it
\* awaits the store: "await get_mongodb_client()" has no await inside, so the
\* test of _mongo_client and its assignment run without another coroutine in
\* between; "await col.find_one(...)" and the cursor iteration suspend.

\* The tools that can return a 400 before asking for the handle.
ValidatesFirst == {"get_flight_basic_info", "get_operation_times"}

\* One tool of each shape of handle use: health_check and raw_mongodb_query
\* ask for the handle themselves, the look-ups through _fetch_one_async,
\* two of them after validating the date.
LoopTools == {"health_check", "get_flight_basic_info", "get_crew_info",
              "raw_mongodb_query"}

\* A call arrives and runs up to its first suspension: it is rejected before
\* the handle is asked for, or it asks for the handle and fails, or it holds
\* the handle and waits for the store. handle is the number of the client it
\* received, counted from 1 in order of construction (0: none).
BeginCall ==
    \E t \in 1..MaxTasks, tool \in LoopTools, rejected \in BOOLEAN :
        /\ tasks[t].st = "idle"
        /\ rejected => tool \in ValidatesFirst
        /\ IF rejected
           THEN /\ tasks' = [tasks EXCEPT ![t] = [st |-> "done", tool |-> tool,
                                                  handle |-> 0, code |-> 400]]
                /\ UNCHANGED <<mongo, handles>>
           ELSE \E h \in {get_mongodb_client(mongo, mongo_env)} :
                  /\ mongo' = h.mongo
                  /\ handles' = handles + (IF h.created THEN 1 ELSE 0)
                  /\ tasks' = [tasks EXCEPT ![t] =
                        IF h.raised
                        THEN [st |-> "done", tool |-> tool, handle |-> 0, code |-> 500]
                        ELSE IF ~h.mongo.col
                        THEN [st |-> "done", tool |-> tool, handle |-> handles', code |-> 500]
                        ELSE [st |-> "fetching", tool |-> tool, handle |-> handles']]
    /\ UNCHANGED <<collection, mongo_env, srv, clientVars, connVars>>

\* The store answers a suspended coroutine, or fails, and the tool returns.
CompleteCall ==
    \E t \in 1..MaxTasks, code \in {200, 404, 500} :
        /\ tasks[t].st = "fetching"
        /\ tasks' = [tasks EXCEPT ![t] = [st |-> "done", tool |-> tasks[t].tool,
                                          handle |-> tasks[t].handle, code |-> code]]
    /\ UNCHANGED <<collection, mongo_env, mongo, srv, handles, clientVars, connVars>>

\* The answer has been sent; the slot is free for a later call.
ReturnCall ==
    \E t \in 1..MaxTasks :
        /\ tasks[t].st = "done"
        /\ tasks' = [tasks EXCEPT ![t] = NoTask]
    /\ UNCHANGED <<collection, mongo_env, mongo, srv, handles, clientVars, connVars>>

\* A server process under any store configuration.
InitLoop ==
    /\ collection = Fleet
    /\ mongo_env \in MongoEnvs
    /\ mongo = NoMongo
    /\ srv = Idle
    /\ ClientInit
    /\ PoolInit
    /\ ConnInit

NextLoop == BeginCall \/ CompleteCall \/ ReturnCall

SpecLoop == InitLoop /\ [][NextLoop]_vars


\* ------------------------------------------------------------------ the MCP session

\* The client object: self.session and self._client_context hold 0 for None
\* or the number of an object; objects[n] is the n-th object constructed, a
\* transport context or a ClientSession, with its state "created", "entered"
\* or "released" and whether initialize() completed on it.
Self == [session |-> session, client_context |-> client_context, objects |-> objects]

Transport(st) == [kind |-> "transport", st |-> st, init |-> FALSE]
Session(st, init) == [kind |-> "session", st |-> st, init |-> init]

\* Where connect() can fail: entering the transport, entering the session,
\* initialize(), or nowhere.
ConnectFails == {"transport", "session", "initialize", "none"}

\* client.py 64-83. Each field is assigned before the object is entered, and
\* the except clause re-raises without releasing anything.
connect(self, fail) ==
    LET tid == Len(self.objects) + 1
        sid == Len(self.objects) + 2
    IN  CASE fail = "transport" ->
                [session |-> self.session, client_context |-> tid,
                 objects |-> Append(self.objects, Transport("created")),
                 raised |-> TRUE]
          [] fail = "session" ->
                [session |-> sid, client_context |-> tid,
                 objects |-> self.objects \o <<Transport("entered"),
                                                Session("created", FALSE)>>,
                 raised |-> TRUE]
          [] fail = "initialize" ->
                [session |-> sid, client_context |-> tid,
                 objects |-> self.objects \o <<Transport("entered"),
                                                Session("entered", FALSE)>>,
                 raised |-> TRUE]
          [] OTHER ->
                [session |-> sid, client_context |-> tid,
                 objects |-> self.objects \o <<Transport("entered"),
                                                Session("entered", TRUE)>>,
                 raised |-> FALSE]

\* What an __aexit__ can do: return, or raise having released the object or
\* not.
ExitOutcomes == {"ok", "raised_released", "raised_held"}

Release(objs, n, outcome) ==
    IF outcome = "raised_held" THEN objs ELSE [objs EXCEPT ![n].st = "released"]

\* client.py 85-94. An exception from the session's __aexit__ is caught after
\* the transport's __aexit__ has been skipped; neither field is reset.
disconnect(self, sx, cx) ==
    LET afterSession == IF self.session # 0 THEN Release(self.objects, self.session, sx)
                        ELSE self.objects
        sessionRaised == self.session # 0 /\ sx # "ok"
        afterContext == IF ~sessionRaised /\ self.client_context # 0
                        THEN Release(afterSession, self.client_context, cx)
                        ELSE afterSession
    IN  [session |-> self.session, client_context |-> self.client_context,
         objects |-> afterContext]

\* client.py 101-102 and 122-123: "if not self.session: await self.connect()".
EnsureSession(self, fail) ==
    IF self.session = 0 THEN connect(self, fail)
    ELSE [session |-> self.session, client_context |-> self.client_context,
          objects |-> self.objects, raised |-> FALSE]

SetSelf(c) ==
    /\ session' = c.session
    /\ client_context' = c.client_context
    /\ objects' = c.objects

\* An entry of api_log: the method, whether its connect raised, whether a
\* request went out and, if so, on which session object and in what state
\* that object was.
Entry(fn, raised, issued, on, objs) ==
    [fn |-> fn, raised |-> raised, issued |-> issued, on |-> on,
     st |-> IF issued THEN objs[on].st ELSE "none",
     init |-> issued /\ objs[on].init]

\* app.py 27-35: the bootstrap calls connect() before anything else and, as
\* long as it has failed, again on the next rerun of the script.
Connect ==
    /\ Len(api_log) < MaxCalls
    /\ \A i \in 1..Len(api_log) : api_log[i].fn = "connect" /\ api_log[i].raised
    /\ \E fail \in ConnectFails :
         \E c \in {connect(Self, fail)} :
            /\ SetSelf(c)
            /\ api_log' = Append(api_log, Entry("connect", c.raised, FALSE, 0, c.objects))
    /\ UNCHANGED <<serverVars, clientVars, poolVars>>

\* client.py 85-94: teardown.
Disconnect ==
    /\ Len(api_log) < MaxCalls
    /\ \E sx \in ExitOutcomes, cx \in ExitOutcomes :
         \E c \in {disconnect(Self, sx, cx)} :
            /\ SetSelf(c)
            /\ api_log' = Append(api_log, Entry("disconnect", FALSE, FALSE, 0, c.objects))
    /\ UNCHANGED <<serverVars, clientVars, poolVars>>

\* The common start of list_tools and invoke_tool: connect if there is no
\* session object, then send the request on self.session. Whatever is raised
\* is caught and returned as {"error": ...}.
Request(fn, c) ==
    /\ SetSelf(c)
    /\ api_log' = Append(api_log,
            Entry(fn, c.raised, ~c.raised, IF c.raised THEN 0 ELSE c.session, c.objects))

\* client.py 98-117.
ListTools ==
    /\ Len(api_log) < MaxCalls
    /\ \E fail \in ConnectFails :
         \E c \in {EnsureSession(Self, fail)} : Request("list_tools", c)
    /\ UNCHANGED <<serverVars, clientVars, poolVars>>

\* client.py 119-151.
InvokeTool ==
    /\ Len(api_log) < MaxCalls
    /\ \E fail \in ConnectFails :
         \E c \in {EnsureSession(Self, fail)} : Request("invoke_tool", c)
    /\ UNCHANGED <<serverVars, clientVars, poolVars>>

NextSession == Connect \/ Disconnect \/ ListTools \/ InvokeTool

SpecSession == Init /\ [][NextSession]_vars


\* ------------------------------------------------------------------ claims

\* A server answer {"ok": true, ...}.
IsOk(resp) == "ok" \in DOMAIN resp /\ resp.ok
\* A server answer {"ok": false, "error": {..., "code": code}}.
IsErrCode(resp, code) == "ok" \in DOMAIN resp /\ ~resp.ok /\ resp.error.code = code
\* The client's own {"error": ...}: the call did not get through.
IsTransportErr(resp) == "ok" \notin DOMAIN resp /\ "error" \in DOMAIN resp

InvokeCalls == SelectSeq(calls, LAMBDA c : c.fn = "invoke_tool")
SummaryCalls == SelectSeq(calls, LAMBDA c : c.fn = "summarize_results")

NoPlanError == [kind |-> "error", error |-> "LLM did not produce a valid tool plan."]

\* C1: when planning yields an empty plan (the reply is not JSON, has no
\* "plan", or the plan is empty), run_query is Done with the "no valid plan"
\* error and has called neither invoke_tool nor summarize_results.
C1_EmptyPlanExits ==
    (pc \notin {"Idle", "Raised"} /\ ~Truthy(plan)) =>
        /\ pc = "Done"
        /\ ret = NoPlanError
        /\ calls = <<>>
        /\ results = <<>>

\* C1 witness: the planning reply was not JSON and the run ended in the error.
C1_Witness ==
    /\ plan_reply = LLMText(FALSE, JNull)
    /\ pc = "Done"
    /\ ret = NoPlanError

\* A plan of the data model: every step an object whose arguments, when
\* given, are a mapping.
WellFormedStep(s) == s.t = "obj" /\ StepArguments(s).t = "obj"
WellFormedPlan == plan.t = "list" /\ \A i \in 1..Len(plan.items) : WellFormedStep(plan.items[i])

\* How many steps the loop has gone through.
Processed ==
    IF pc = "Executing" THEN idx - 1
    ELSE IF pc \in {"Summarizing", "Done"} /\ Truthy(plan) THEN Len(plan.items)
    ELSE 0

\* The positions, in plan order, of the processed steps with a non-blank tool.
NonBlankSteps ==
    SelectSeq([i \in 1..Processed |-> i],
              LAMBDA i : ~BlankTool(StepTool(plan.items[i])))

\* C2: for a non-empty plan of well-formed steps, whatever each call
\* returns, the steps with a non-blank tool are invoked one after another in
\* plan order and results holds exactly one entry per such step, in that
\* order; a failed call does not stop the loop, and the run never raises.
C2_OneResultPerStepInOrder ==
    (WellFormedPlan /\ Truthy(plan)) =>
        /\ pc # "Raised"
        /\ Len(results) = Len(NonBlankSteps)
        /\ Len(InvokeCalls) = Len(NonBlankSteps)
        /\ \A j \in 1..Len(NonBlankSteps) :
              /\ InvokeCalls[j].step = NonBlankSteps[j]
              /\ InvokeCalls[j].tool = StepTool(plan.items[NonBlankSteps[j]]).v
              /\ results[j].tool = InvokeCalls[j].tool
        /\ pc = "Done" => (ret.kind = "result" /\ ret.results = results)

\* C2 witness: three steps, the second failing with a store error, all three
\* recorded: Ok, Err(500), Ok.
C2_Witness ==
    /\ pc = "Done"
    /\ ret.kind = "result"
    /\ Len(plan.items) = 3
    /\ Len(ret.results) = 3
    /\ IsOk(ret.results[1].resp)
    /\ IsErrCode(ret.results[2].resp, 500)
    /\ IsOk(ret.results[3].resp)

\* C3 (as claimed): whatever the LLM does, run_query ends by returning
\* {error} or {plan, results, summary}; it never raises.
C3_RunQueryNeverRaises ==
    /\ pc # "Raised"
    /\ pc = "Done" => ret.kind \in {"error", "result"}


\* An argument value the sanitation is said to drop: null, empty after
\* trimming, or "unknown" in any case after trimming.
ShouldDrop(v) ==
    \/ v.t = "null"
    \/ Strip(PyStr(v)) = <<>>
    \/ Lower(Strip(PyStr(v))) = T_unknown

\* C4 (as claimed): no argument whose value is null, blank or "unknown"
\* (case-insensitively, after trimming) is in the mapping handed to
\* invoke_tool, nor is its value a term of a filter sent to the store.
C4_UnknownNeverReachesExecutor ==
    \A i \in 1..Len(InvokeCalls) :
        LET given == StepArguments(plan.items[InvokeCalls[i].step]).m
        IN  \A k \in DOMAIN given :
                ShouldDrop(given[k]) =>
                    /\ k \notin DOMAIN InvokeCalls[i].args
                    /\ \A f \in 1..Len(InvokeCalls[i].fetches) :
                         \A q \in DOMAIN InvokeCalls[i].fetches[f].query :
                            InvokeCalls[i].fetches[f].query[q] # given[k]

\* A name neither the server registers nor the catalog lists.
Unrecognized(name) == name \notin ServerTools \cup TOOLS

\* C5 (as claimed): a step whose tool name is empty or unrecognized is
\* skipped: invoke_tool is not called for it and results has no entry for it.
C5_UnrecognizedSkipped ==
    \A i \in 1..Len(InvokeCalls) :
        /\ InvokeCalls[i].tool # ""
        /\ ~Unrecognized(InvokeCalls[i].tool)

\* C5 (amended): a step whose tool name is missing or empty is skipped, with
\* no invoke_tool call and no results entry; a step with any other name,
\* registered or not, is invoked and its answer recorded, and invoke_tool
\* does not raise for it.
C5_BlankSkippedOthersInvoked ==
    \A i \in 1..Processed :
        LET step == plan.items[i]
            here == SelectSeq(InvokeCalls, LAMBDA c : c.step = i)
        IN  WellFormedStep(step) =>
              IF ~StepTool(step).some \/ StepTool(step).v = ""
              THEN Len(here) = 0
              ELSE /\ Len(here) = 1
                   /\ \E j \in 1..Len(results) :
                         /\ InvokeCalls[j].step = i
                         /\ results[j].tool = StepTool(step).v
                   /\ ~(ret.kind = "raised" /\ ret.at = "invoke_tool")

\* C5 witness: a run that went past a step with tool "" and past a step with
\* an unregistered tool, the second answered with the server's error text.
C5_Witness ==
    /\ pc = "Done"
    /\ ret.kind = "result"
    /\ Len(plan.items) = 2
    /\ WellFormedPlan
    /\ StepTool(plan.items[1]).some /\ StepTool(plan.items[1]).v = ""
    /\ StepTool(plan.items[2]).some /\ Unrecognized(StepTool(plan.items[2]).v)
    /\ Len(results) = 1
    /\ "text" \in DOMAIN results[1].resp

\* Step i was dealt with: invoked, or skipped for its blank tool.
StepDealtWith(i) ==
    \/ BlankTool(StepTool(plan.items[i]))
    \/ \E j \in 1..Len(InvokeCalls) : InvokeCalls[j].step = i

\* C9: in a run that reaches the summary, summarize_results is called once,
\* after every step of the plan was invoked or skipped, with the question,
\* the whole plan and the whole results list; no invoke_tool call follows
\* it.  No run calls it twice, and a returned RunResult carries its answer.
C9_SummaryOnceAfterAllSteps ==
    /\ Len(SummaryCalls) <= 1
    /\ Len(SummaryCalls) = 1 <=> (pc = "Done" /\ ret.kind = "result")
    /\ pc = "Summarizing" =>
          \A i \in 1..Len(plan.items) : StepDealtWith(i)
    /\ Len(SummaryCalls) = 1 =>
          /\ calls[Len(calls)].fn = "summarize_results"
          /\ \A i \in 1..Len(plan.items) : StepDealtWith(i)
          /\ SummaryCalls[1].user_query = user_query
          /\ user_query \in Questions
          /\ SummaryCalls[1].plan = plan
          /\ SummaryCalls[1].results = results
          /\ Len(results) = Len(InvokeCalls)
          /\ ret.plan = plan /\ ret.results = results

\* C9 witness: a three-step run with a skipped step and two invoked ones has
\* been summarized.
C9_Witness ==
    /\ pc = "Done"
    /\ ret.kind = "result"
    /\ Len(plan.items) = 3
    /\ Len(InvokeCalls) = 2
    /\ Len(SummaryCalls) = 1
    /\ calls[3].fn = "summarize_results"


\* What plan_tools is said to return for a planning reply: the parsed object's
\* plan when the reply is JSON for an object with a "plan" key, else the
\* empty plan.
PlanOfReply(llm) ==
    IF /\ llm.kind = "content"
       /\ llm.content.kind = "text"
       /\ llm.content.json
       /\ llm.content.val.t = "obj"
       /\ "plan" \in DOMAIN llm.content.val.m
    THEN llm.content.val.m["plan"]
    ELSE JList(<<>>)

\* C8 (as claimed): plan_tools never raises; it yields the parsed plan when
\* the reply is a JSON object with a "plan" key and the empty plan otherwise
\* (not JSON, no such object, or the LLM call failed).
C8_PlanToolsNeverRaises ==
    pc # "Idle" =>
        /\ ~(ret.kind = "raised" /\ ret.at = "plan_tools")
        /\ plan = PlanOfReply(plan_reply)

LookupTools == {"get_flight_basic_info", "get_operation_times", "get_equipment_info",
                "get_delay_summary", "get_fuel_summary", "get_passenger_info",
                "get_crew_info"}

AnsweredLookup == srv.phase = "replied" /\ srv.tool \in LookupTools
Answer == srv.text.val

\* C6 (as claimed): every look-up tool answers a date_of_origin that is not
\* empty and parses under no format with Err(400) and fetches nothing; with
\* an empty date it raises no validation error and the filter has no date term.
C6_BadDateRejectedByEveryTool ==
    AnsweredLookup =>
        LET date == srv.args.date_of_origin
        IN  /\ (date # <<>> /\ ~validate_date(date).some) =>
                  (IsErrCode(Answer, 400) /\ srv.fetches = <<>>)
            /\ date = <<>> =>
                  /\ ~IsErrCode(Answer, 400)
                  /\ \A f \in 1..Len(srv.fetches) :
                        KeyDateOfOrigin \notin DOMAIN srv.fetches[f].query

\* The handle was not to be had: the globals were unset and the
\* configuration is bad, or an earlier failure left _col unset.
HandleFails == (~srv.before.client /\ mongo_env # "ok") \/ (srv.before.client /\ ~srv.before.col)

\* C7: a single-document fetch answers with exactly one of: Err 404 "No
\* matching document found." when the store holds no match; Err 500 naming
\* the cause when the handle or the store fails; Ok with a document without
\* _id and _class when there is a match.
C7_FetchOutcomeMapping ==
    (AnsweredLookup /\ ~IsErrCode(Answer, 400)) =>
        /\ srv.text.json
        /\ HandleFails =>
              /\ IsErrCode(Answer, 500)
              /\ srv.fetches = <<>>
        /\ (HandleFails \/ ~srv.up) =>
              /\ IsErrCode(Answer, 500)
              /\ Len(Answer.error.message) = 2
              /\ Answer.error.message[1] = "DB query failed: "
              /\ Answer.error.message[2] # ""
        /\ (~HandleFails /\ srv.up) =>
              /\ Len(srv.fetches) = 1
              /\ srv.fetches[1].op = "find_one"
              /\ IF \E i \in 1..Len(collection) : Matches(collection[i], srv.fetches[1].query)
                 THEN /\ IsOk(Answer)
                      /\ "_id" \notin DOMAIN Answer.data
                      /\ "_class" \notin DOMAIN Answer.data
                      /\ "error" \notin DOMAIN Answer
                 ELSE /\ IsErrCode(Answer, 404)
                      /\ Answer.error.message = <<"No matching document found.">>
                      /\ "data" \notin DOMAIN Answer

\* C7 witness: carrier 6E, flight 215 on 2024-06-23 is found and returned,
\* the stored document having carried an _id.
C7_Witness ==
    /\ AnsweredLookup
    /\ srv.tool = "get_flight_basic_info"
    /\ srv.args = [carrier |-> T_6E, flight_number |-> T_215, date_of_origin |-> T_iso]
    /\ IsOk(Answer)
    /\ "flightLegState" \in DOMAIN Answer.data
    /\ \A i \in 1..Len(collection) : "_id" \in DOMAIN collection[i]

AnsweredRawFetch ==
    srv.phase = "replied" /\ srv.tool = "raw_mongodb_query" /\ srv.fetches # <<>>

\* C10: the limit a raw query runs with is 1 for a limit of 1 or less, 50
\* for 50 or more, and the limit itself in between; so it lies in 1..50,
\* and no more documents than that are returned.
C10_LimitClamped ==
    AnsweredRawFetch =>
        LET asked == srv.args.limit
            effective == srv.fetches[1].limit
        IN  /\ effective \in 1..50
            /\ asked <= 1 => effective = 1
            /\ asked >= 50 => effective = 50
            /\ asked \in 1..50 => effective = asked
            /\ IsOk(Answer) =>
                  /\ Len(Answer.data.documents) <= effective
                  /\ Answer.data.count = Len(Answer.data.documents)

\* C10 witness: limit 1000 ran with 50 over more than 50 matching documents
\* and 50 came back.
C10_Witness ==
    /\ AnsweredRawFetch
    /\ srv.args.limit = 1000
    /\ srv.fetches[1].limit = 50
    /\ IsOk(Answer)
    /\ Len(Answer.data.documents) = 50
    /\ Len(Matching(collection, srv.fetches[1].query)) > 50

\* C14 (as claimed): a look-up that answers Ok(document) selected the
\* document with a filter holding a term for every identifier the caller gave
\* as a non-empty value (carrier, flight number, date of origin); an
\* identifier that does not normalize, such as flight number "abc", is never
\* dropped from the filter of a call that then returns a document.
C14_SuppliedIdentifiersConstrain ==
    (AnsweredLookup /\ IsOk(Answer)) =>
        /\ Len(srv.fetches) = 1
        /\ srv.args.carrier # <<>> => KeyCarrier \in DOMAIN srv.fetches[1].query
        /\ srv.args.flight_number # <<>> =>
              KeyFlightNumber \in DOMAIN srv.fetches[1].query
        /\ srv.args.date_of_origin # <<>> =>
              KeyDateOfOrigin \in DOMAIN srv.fetches[1].query

\* The tool names the planning prompt of a run lists.
PromptTools == {line.name : line \in _build_tool_prompt}

\* C13 (as claimed): the catalog handed to the planner covers the nine
\* operations: once a run has planned, every tool the server exposes was a
\* line of the planning prompt, and every line named a tool the server exposes.
C13_CatalogCoversServerTools ==
    pc # "Idle" =>
        /\ \A tool \in ServerTools : tool \in PromptTools
        /\ \A tool \in PromptTools : tool \in ServerTools

\* The coroutines that were handed a client.
Holders == {t \in 1..MaxTasks : tasks[t].st # "idle" /\ tasks[t].handle # 0}

\* C11: however tool calls interleave at their suspension points, the process
\* constructs at most one store client, on the first call that needs it, and
\* every call that is handed a client is handed that one.
C11_OneHandleShared ==
    /\ handles <= 1
    /\ handles = 0 <=> ~mongo.client
    /\ \A t \in Holders : tasks[t].handle = 1

\* C11 witness: three calls hold the one client at once, two of them
\* suspended on the store while the third has its answer.
C11_Witness ==
    /\ handles = 1
    /\ Holders = 1..MaxTasks
    /\ Cardinality({t \in Holders : tasks[t].st = "fetching"}) >= 2
    /\ \E t \in Holders : tasks[t].st = "done" /\ tasks[t].code = 200

\* The objects that hold a resource: entered and not released.
Held == {n \in 1..Len(objects) : objects[n].st = "entered"}

\* The sessions on which initialize() completed.
Established == {n \in 1..Len(objects) : objects[n].init}

\* C12 (as claimed): a client establishes the MCP connection at most once,
\* and when disconnect has returned, every transport context and session
\* that connect entered has been released, whatever failed during connect
\* or during the teardown itself.
C12_ConnectionScoped ==
    /\ Cardinality(Established) <= 1
    /\ (api_log # <<>> /\ api_log[Len(api_log)].fn = "disconnect") => Held = {}

\* C15 (as claimed): a request goes out only on a session whose initialize()
\* completed and that has not been released; after a failed connect or a
\* disconnect, the next list_tools or invoke_tool connects again.
C15_RequestsOnLiveSession ==
    \A i \in 1..Len(api_log) :
        api_log[i].issued => (api_log[i].init /\ api_log[i].st = "entered")


====
